---- MODULE Spec2Model ----
(***************************************************************************)
(* A model of the FLE static linker, FLE_ld (src/student/ld.cpp), and of   *)
(* the symbol lister FLE_nm (src/student/nm.cpp).                          *)
(*                                                                         *)
(* One link invocation is a run of the state machine: Init picks the       *)
(* input objects and the options, and the actions are the stages of        *)
(* FLE_ld in program order.  The loops whose single iterations the         *)
(* properties talk about (archive members, symbols, relocations) advance   *)
(* one iteration per step; the other stages are one step each.             *)
(*                                                                         *)
(* Representation notes.                                                   *)
(*  - std::vector<uint8_t> is a record [len, nz]: its length and the map   *)
(*    from the offsets of its non-zero bytes to those bytes (offsets are   *)
(*    0-based as in the code).                                             *)
(*  - Object indexes are 1-based (sequence positions); the code's obj_idx  *)
(*    is this index minus one.                                             *)
(*  - 64-bit machine words are sequences of four 16-bit limbs, least       *)
(*    significant first, so that uint64_t/int64_t arithmetic keeps its     *)
(*    width.                                                               *)
(***************************************************************************)
EXTENDS Integers, Sequences, FiniteSets, TLC

(***************************************************************************)
(* Program constants                                                       *)
(***************************************************************************)
PAGE_SIZE == 4096

base_addr == 4194304

\* SymbolType
GLOBAL == "GLOBAL"
WEAK == "WEAK"
\* (LOCAL is a reserved word of TLA+)
LOCAL_ == "LOCAL"
UNDEFINED == "UNDEFINED"

\* RelocationType
R_X86_64_32 == "R_X86_64_32"
R_X86_64_32S == "R_X86_64_32S"
R_X86_64_PC32 == "R_X86_64_PC32"
R_X86_64_64 == "R_X86_64_64"

(***************************************************************************)
(* Generic helpers                                                         *)
(***************************************************************************)
Range(s) == {s[i] : i \in DOMAIN s}

Min(a, b) == IF a < b THEN a ELSE b

\* Finite maps (std::map / std::unordered_map) are functions; find() is a
\* domain test.
EmptyMap == <<>>

MapPut(m, k, v) == [x \in DOMAIN m \cup {k} |-> IF x = k THEN v ELSE m[x]]

\* std::string::find(prefix) == 0
StartsWith(s, p) == Len(s) >= Len(p) /\ SubSeq(s, 1, Len(p)) = p

\* !name.empty() && name[0] == '.'
IsDotName(name) == Len(name) > 0 /\ SubSeq(name, 1, 1) = "."

(***************************************************************************)
(* 64-bit words                                                            *)
(***************************************************************************)
\* Two bytes.
Limb == 256 * 256

\* The word of a natural number below 2^31.
W64(n) == <<n % Limb, n \div Limb, 0, 0>>

Add64(x, y) ==
    LET s1 == x[1] + y[1]
        s2 == x[2] + y[2] + (s1 \div Limb)
        s3 == x[3] + y[3] + (s2 \div Limb)
        s4 == x[4] + y[4] + (s3 \div Limb)
    IN  <<s1 % Limb, s2 % Limb, s3 % Limb, s4 % Limb>>

Neg64(x) == Add64(<<Limb - 1 - x[1], Limb - 1 - x[2], Limb - 1 - x[3], Limb - 1 - x[4]>>, W64(1))

Sub64(x, y) == Add64(x, Neg64(y))

\* int64_t conversion of a small signed integer (sign extension).
I64(n) == IF n >= 0 THEN W64(n) ELSE Neg64(W64(-n))

\* value > 0xFFFFFFFF on a uint64_t
AboveUint32(x) == x[3] # 0 \/ x[4] # 0

\* value > INT32_MAX || value < INT32_MIN on an int64_t
OutsideInt32(x) ==
    ~ \/ (x[3] = 0 /\ x[4] = 0 /\ x[2] < 32768)
      \/ (x[3] = Limb - 1 /\ x[4] = Limb - 1 /\ x[2] >= 32768)

(***************************************************************************)
(* Byte vectors                                                            *)
(***************************************************************************)
EmptyBuf == [len |-> 0, nz |-> EmptyMap]

ByteAt(buf, i) == IF i \in DOMAIN buf.nz THEN buf.nz[i] ELSE 0

\* data.insert(data.end(), src.begin(), src.end())
BufAppend(a, b) ==
    [len |-> a.len + b.len,
     nz |-> [i \in DOMAIN a.nz \cup {j + a.len : j \in DOMAIN b.nz} |->
                IF i \in DOMAIN a.nz THEN a.nz[i] ELSE b.nz[i - a.len]]]

\* data[i] = b, for i < len
BufSet(buf, i, b) ==
    [len |-> buf.len,
     nz |-> [j \in (DOMAIN buf.nz \cup {i}) \ (IF b = 0 THEN {i} ELSE {}) |->
                IF j = i THEN b ELSE buf.nz[j]]]

\* Little-endian store of the two bytes of one limb at off, off + 1.
StoreLimb(buf, off, l) == BufSet(BufSet(buf, off, l % 256), off + 1, l \div 256)

\* *reinterpret_cast<uint32_t*>(&data[off]) = static_cast<uint32_t>(value)
Store32(buf, off, x) == StoreLimb(StoreLimb(buf, off, x[1]), off + 2, x[2])

\* *reinterpret_cast<uint64_t*>(&data[off]) = value
Store64(buf, off, x) ==
    StoreLimb(StoreLimb(Store32(buf, off, x), off + 4, x[3]), off + 6, x[4])

(***************************************************************************)
(* The data model (fle.hpp as used by ld.cpp)                              *)
(*   Symbol      [name, type, section, offset]                             *)
(*   Relocation  [type, offset, symbol, addend]   (addend: 64-bit word)    *)
(*   FLESection  [data, relocs]                                            *)
(*   FLEObject   [name, type, sections, symbols, members]                  *)
(***************************************************************************)
Sym(name, type, section, offset) ==
    [name |-> name, type |-> type, section |-> section, offset |-> offset]

Reloc(type, offset, symbol, addend) ==
    [type |-> type, offset |-> offset, symbol |-> symbol, addend |-> addend]

Section(data, relocs) == [data |-> data, relocs |-> relocs]

Object(name, sections, symbols) ==
    [name |-> name, type |-> ".obj", sections |-> sections, symbols |-> symbols,
     members |-> <<>>]

Archive(name, members) ==
    [name |-> name, type |-> ".ar", sections |-> EmptyMap, symbols |-> <<>>,
     members |-> members]

\* The input-section names of the model, in ascending std::string order.
SectionNameOrder ==
    <<"", ".bss", ".data", ".data.rel", ".init", ".rodata", ".text", ".text.hot">>

\* std::string operator< on section names (std::map iteration, std::sort).
StrIndex(s) == CHOOSE i \in DOMAIN SectionNameOrder : SectionNameOrder[i] = s

StrLess(a, b) == StrIndex(a) < StrIndex(b)

\* The elements of a set of section names as an ascending sequence.
RECURSIVE SortedSeq(_)
SortedSeq(S) ==
    IF S = {} THEN <<>>
    ELSE LET m == CHOOSE x \in S : \A y \in S \ {x} : StrLess(x, y)
         IN  <<m>> \o SortedSeq(S \ {m})

(***************************************************************************)
(* State                                                                   *)
(***************************************************************************)
VARIABLES
    objects,               \* argument: const std::vector<FLEObject>& objects
    options,               \* argument: [shared, entryPoint]
    pc,                    \* position in FLE_ld
    error,                 \* the exception thrown, "" if none
    archives,              \* archives still held in reserve
    all_objects,           \* the participating objects
    resolved_symbols,
    undefined_symbols,
    changed,
    archive_it,            \* position of archive_it in archives (1-based)
    member_it,             \* position of the member loop in the archive
    archive_used,
    pass,                  \* history of the do-while loop of line 71
    merged_sections,       \* input-section name -> FLESection
    section_offsets,       \* <<obj_idx, section>> -> start in merged buffer
    section_sizes,         \* <<obj_idx, section>> -> size
    global_symbols,        \* name -> Symbol
    output_symbols,
    local_symbols_by_obj,  \* obj_idx -> (name -> Symbol)
    sym_it,                \* <<obj_idx, position>> of the symbol loop
    output_sections,       \* output-section name -> FLESection
    sec_to_output,
    sec_offset_in_output,
    section_vaddr_offsets,
    section_file_offsets,
    section_mem_sizes,
    out_sec_names,
    merged_sec_vaddr,
    reloc_it,              \* <<output section position, relocation position>>
    last,                  \* what the last loop iteration did
    output,                \* the returned FLEObject, NoOutput before return
    nm_obj,                \* FLE_nm's argument: const FLEObject& obj
    nm_symbols,            \* FLE_nm's sorted copy of obj.symbols
    nm_it,                 \* position of FLE_nm's output loop
    nm_lines               \* the lines FLE_nm has written to std::cout

v_input == <<objects, options>>

v_nm == <<nm_obj, nm_symbols, nm_it, nm_lines>>

v_archive == <<archives, all_objects, resolved_symbols, undefined_symbols, changed,
               archive_it, member_it, archive_used, pass>>

v_merge == <<merged_sections, section_offsets, section_sizes>>

v_symbols == <<global_symbols, output_symbols, local_symbols_by_obj, sym_it>>

v_categories == <<output_sections, sec_to_output, sec_offset_in_output>>

v_layout == <<section_vaddr_offsets, section_file_offsets, section_mem_sizes,
              out_sec_names, merged_sec_vaddr>>

vars == <<v_input, pc, error, v_archive, v_merge, v_symbols, v_categories, v_layout,
          reloc_it, last, output, v_nm>>

NoOutput == [type |-> "none"]

NoStep == [op |-> "none"]

\* throw std::runtime_error(...): the link is aborted, nothing is returned.
Throw(kind) == pc' = "failed" /\ error' = kind /\ output' = NoOutput

(***************************************************************************)
(* ld.cpp 32-65: partition the inputs, seed resolved/undefined             *)
(***************************************************************************)
\* The filter of lines 51, 81 and 96.
SkippedByScan(sym) ==
    sym.name = "" \/ IsDotName(sym.name) \/ sym.type = LOCAL_

IsArchive(obj) == obj.type = ".ar"

IsOrdinary(obj) == obj.type # ".ar"

AllSymbols(objs) == UNION {Range(objs[i].symbols) : i \in DOMAIN objs}

SeedResolved(objs) ==
    {s.name : s \in {t \in AllSymbols(objs) : ~SkippedByScan(t) /\ t.type # UNDEFINED}}

SeedUndefined(objs) ==
    {s.name : s \in {t \in AllSymbols(objs) : ~SkippedByScan(t) /\ t.type = UNDEFINED}}
        \ SeedResolved(objs)

\* The history of the loop of lines 71-117: n, the passes completed;
\* reserve, the number of archives at the start of the current pass and
\* before, at the start of the pass before it; slots, the <<archive name,
\* member position>> of the members pushed at line 91, in order.
StartOfLoop(n_archives) ==
    [n |-> 0, reserve |-> n_archives, before |-> n_archives, slots |-> <<>>]

Partition ==
    /\ pc = "start"
    /\ LET ordinary_objs == SelectSeq(objects, IsOrdinary)
       IN  /\ archives' = SelectSeq(objects, IsArchive)
           /\ all_objects' = ordinary_objs
           /\ resolved_symbols' = SeedResolved(ordinary_objs)
           /\ undefined_symbols' = SeedUndefined(ordinary_objs)
    /\ changed' = FALSE
    /\ archive_it' = 1
    /\ member_it' = 1
    /\ archive_used' = FALSE
    /\ pass' = StartOfLoop(Len(SelectSeq(objects, IsArchive)))
    /\ pc' = "archives"
    /\ last' = [op |-> "partition"]
    /\ UNCHANGED <<v_nm, v_input, error, v_merge, v_symbols, v_categories, v_layout,
                   reloc_it, output>>

(***************************************************************************)
(* ld.cpp 67-121: pull archive members on demand                           *)
(***************************************************************************)
\* Lines 79-88.
DefinesNeeded(member, undef) ==
    \E i \in DOMAIN member.symbols :
        LET sym == member.symbols[i]
        IN  ~SkippedByScan(sym) /\ sym.type # UNDEFINED /\ sym.name \in undef

\* Lines 95-107: the sets <<resolved, undefined>> after the symbols from
\* position i on have been recorded in order.
RECURSIVE RecordSymbols(_, _, _, _)
RecordSymbols(syms, i, resolved, undef) ==
    IF i > Len(syms) THEN <<resolved, undef>>
    ELSE LET sym == syms[i]
         IN  IF SkippedByScan(sym)
             THEN RecordSymbols(syms, i + 1, resolved, undef)
             ELSE IF sym.type # UNDEFINED
             THEN RecordSymbols(syms, i + 1, resolved \cup {sym.name}, undef \ {sym.name})
             ELSE IF sym.name \notin resolved
             THEN RecordSymbols(syms, i + 1, resolved, undef \cup {sym.name})
             ELSE RecordSymbols(syms, i + 1, resolved, undef)

InMemberLoop ==
    /\ pc = "archives"
    /\ archive_it <= Len(archives)
    /\ member_it <= Len(archives[archive_it].members)

\* One iteration of the member loop, lines 78-109, for a member that is pulled.
PullMember ==
    /\ InMemberLoop
    /\ LET member == archives[archive_it].members[member_it]
       IN  /\ DefinesNeeded(member, undefined_symbols)
           /\ all_objects' = Append(all_objects, member)
           /\ LET sets == RecordSymbols(member.symbols, 1, resolved_symbols,
                                        undefined_symbols)
              IN  resolved_symbols' = sets[1] /\ undefined_symbols' = sets[2]
           /\ last' = [op |-> "pull", member |-> member]
    /\ pass' = [pass EXCEPT !.slots = Append(@, <<archives[archive_it].name, member_it>>)]
    /\ archive_used' = TRUE
    /\ changed' = TRUE
    /\ member_it' = member_it + 1
    /\ UNCHANGED <<v_nm, v_input, pc, error, archives, archive_it, v_merge, v_symbols,
                   v_categories, v_layout, reloc_it, output>>

\* One iteration of the member loop for a member that is not pulled.
SkipMember ==
    /\ InMemberLoop
    /\ LET member == archives[archive_it].members[member_it]
       IN  /\ ~DefinesNeeded(member, undefined_symbols)
           /\ last' = [op |-> "skip", member |-> member]
    /\ member_it' = member_it + 1
    /\ UNCHANGED <<v_nm, v_input, pc, error, archives, all_objects, resolved_symbols,
                   undefined_symbols, changed, archive_it, archive_used, pass, v_merge,
                   v_symbols, v_categories, v_layout, reloc_it, output>>

\* RemoveAt without the erase of line 112: the used archive stays in reserve.
RemoveNothing(s, i) == s

\* Lines 111-115: the end of one archive's member loop.
RemoveAt(s, i) == SubSeq(s, 1, i - 1) \o SubSeq(s, i + 1, Len(s))

EndArchive ==
    /\ pc = "archives"
    /\ archive_it <= Len(archives)
    /\ member_it > Len(archives[archive_it].members)
    /\ IF archive_used
       THEN archives' = RemoveAt(archives, archive_it) /\ archive_it' = archive_it
       ELSE archives' = archives /\ archive_it' = archive_it + 1
    /\ member_it' = 1
    /\ archive_used' = FALSE
    /\ last' = [op |-> "end_archive", erased |-> archive_used]
    /\ UNCHANGED <<v_nm, v_input, pc, error, all_objects, resolved_symbols,
                   undefined_symbols, changed, pass, v_merge, v_symbols, v_categories,
                   v_layout, reloc_it, output>>

\* Line 117, with the start of the next pass (line 72), or lines 119-121.
EndPass ==
    /\ pc = "archives"
    /\ archive_it > Len(archives)
    /\ last' = [op |-> "end_pass", pulled |-> changed]
    /\ pass' = [pass EXCEPT !.n = @ + 1, !.reserve = Len(archives), !.before = pass.reserve]
    /\ IF changed
       THEN /\ changed' = FALSE
            /\ archive_it' = 1
            /\ UNCHANGED <<pc, error, output>>
       ELSE /\ UNCHANGED <<changed, archive_it>>
            /\ IF all_objects = <<>>
               THEN Throw("no-input")
               ELSE pc' = "merge" /\ UNCHANGED <<error, output>>
    /\ UNCHANGED <<v_nm, v_input, archives, all_objects, resolved_symbols, undefined_symbols,
                   member_it, archive_used, v_merge, v_symbols, v_categories,
                   v_layout, reloc_it>>

(***************************************************************************)
(* ld.cpp 128-157: stage one, merge the sections of the same name          *)
(***************************************************************************)
\* ShiftRelocs without line 153: the relocations keep their input offsets.
ShiftRelocsNowhere(relocs, by) == relocs

\* new_reloc.offset += current_offset
ShiftRelocs(relocs, by) ==
    [i \in DOMAIN relocs |-> [relocs[i] EXCEPT !.offset = @ + by]]

\* merged_sections[sec_name].data.size(), 0 for a section created at 137-142.
MergedSize(ms, sec_name) == IF sec_name \in DOMAIN ms THEN ms[sec_name].data.len ELSE 0

\* Lines 136-156 for the object at obj_idx: m is [sections, offsets, sizes].
MergeObject(m, obj_idx, obj) ==
    LET names == DOMAIN obj.sections
        old(n) == IF n \in DOMAIN m.sections THEN m.sections[n] ELSE Section(EmptyBuf, <<>>)
    IN  [sections |->
            [n \in DOMAIN m.sections \cup names |->
                IF n \in names
                THEN Section(BufAppend(old(n).data, obj.sections[n].data),
                             old(n).relocs \o
                                ShiftRelocs(obj.sections[n].relocs, old(n).data.len))
                ELSE m.sections[n]],
         offsets |->
            [k \in DOMAIN m.offsets \cup {<<obj_idx, n>> : n \in names} |->
                IF k \in DOMAIN m.offsets THEN m.offsets[k]
                ELSE MergedSize(m.sections, k[2])],
         sizes |->
            [k \in DOMAIN m.sizes \cup {<<obj_idx, n>> : n \in names} |->
                IF k \in DOMAIN m.sizes THEN m.sizes[k]
                ELSE obj.sections[k[2]].data.len]]

\* The loop of line 133 over the first n objects.
RECURSIVE MergeAll(_, _)
MergeAll(objs, n) ==
    IF n = 0 THEN [sections |-> EmptyMap, offsets |-> EmptyMap, sizes |-> EmptyMap]
    ELSE MergeObject(MergeAll(objs, n - 1), n, objs[n])

\* The position of the first symbol at or after <<obj_idx, i>>, or
\* <<Len(objs) + 1, 1>> when the loops of lines 166 and 169 are over.
RECURSIVE SymPos(_, _, _)
SymPos(objs, obj_idx, i) ==
    IF obj_idx > Len(objs) THEN <<Len(objs) + 1, 1>>
    ELSE IF i <= Len(objs[obj_idx].symbols) THEN <<obj_idx, i>>
    ELSE SymPos(objs, obj_idx + 1, 1)

MergeSections ==
    /\ pc = "merge"
    /\ \E m \in {MergeAll(all_objects, Len(all_objects))} :
          /\ merged_sections' = m.sections
          /\ section_offsets' = m.offsets
          /\ section_sizes' = m.sizes
    /\ global_symbols' = EmptyMap
    /\ output_symbols' = <<>>
    /\ local_symbols_by_obj' = [i \in DOMAIN all_objects |-> EmptyMap]
    /\ sym_it' = SymPos(all_objects, 1, 1)
    /\ pc' = "symbols"
    /\ last' = [op |-> "merge"]
    /\ UNCHANGED <<v_nm, v_input, error, v_archive, v_categories, v_layout, reloc_it, output>>

(***************************************************************************)
(* ld.cpp 159-223: the global table and the per-object label tables        *)
(***************************************************************************)
\* Rebased without lines 173-175 and 185-187: the symbol keeps the offset it
\* has in its input section.
RebasedWithoutShift(sym, obj_idx, offsets) == sym

\* Lines 172-175 and 184-187: the copy of sym with its offset rewritten to
\* the merged buffer.
Rebased(sym, obj_idx, offsets) ==
    IF sym.section # "" /\ <<obj_idx, sym.section>> \in DOMAIN offsets
    THEN [sym EXCEPT !.offset = @ + offsets[<<obj_idx, sym.section>>]]
    ELSE sym

\* Resolve with only lines 189-191: the first entry of a name stays.
ResolveFirstWins(gs, new_sym) ==
    IF new_sym.name \notin DOMAIN gs
    THEN [fail |-> FALSE, table |-> MapPut(gs, new_sym.name, new_sym)]
    ELSE [fail |-> FALSE, table |-> gs]

\* Lines 189-221: [fail, table] for candidate new_sym against table gs.
Resolve(gs, new_sym) ==
    IF new_sym.name \notin DOMAIN gs
    THEN [fail |-> FALSE, table |-> MapPut(gs, new_sym.name, new_sym)]
    ELSE LET existing_sym == gs[new_sym.name]
             replaced == [fail |-> FALSE, table |-> MapPut(gs, new_sym.name, new_sym)]
             kept == [fail |-> FALSE, table |-> gs]
         IN  IF existing_sym.type = GLOBAL /\ new_sym.type = GLOBAL
             THEN [fail |-> TRUE, table |-> gs]
             ELSE IF existing_sym.type = WEAK /\ new_sym.type = GLOBAL THEN replaced
             ELSE IF existing_sym.type = GLOBAL /\ new_sym.type = WEAK THEN kept
             ELSE IF existing_sym.type = WEAK /\ new_sym.type = WEAK THEN kept
             ELSE IF existing_sym.type = UNDEFINED /\ new_sym.type # UNDEFINED THEN replaced
             ELSE kept

InSymbolLoop == pc = "symbols" /\ sym_it[1] <= Len(all_objects)

CurrentSymbol == all_objects[sym_it[1]].symbols[sym_it[2]]

\* Lines 171-181: a symbol whose name begins with '.'.
RecordLocalLabel ==
    /\ InSymbolLoop
    /\ IsDotName(CurrentSymbol.name)
    /\ LET obj_idx == sym_it[1]
           new_sym == Rebased(CurrentSymbol, obj_idx, section_offsets)
       IN  /\ local_symbols_by_obj' =
                [local_symbols_by_obj EXCEPT ![obj_idx] = MapPut(@, new_sym.name, new_sym)]
           /\ output_symbols' = Append(output_symbols, [new_sym EXCEPT !.type = LOCAL_])
           /\ last' = [op |-> "label", obj_idx |-> obj_idx, sym |-> CurrentSymbol]
    /\ sym_it' = SymPos(all_objects, sym_it[1], sym_it[2] + 1)
    /\ UNCHANGED <<v_nm, v_input, pc, error, v_archive, v_merge, global_symbols, v_categories,
                   v_layout, reloc_it, output>>

\* Lines 183-221: every other symbol.
ResolveSymbol ==
    /\ InSymbolLoop
    /\ ~IsDotName(CurrentSymbol.name)
    /\ last' = [op |-> "resolve", obj_idx |-> sym_it[1], sym |-> CurrentSymbol,
                table |-> global_symbols]
    /\ \E r \in {Resolve(global_symbols,
                         Rebased(CurrentSymbol, sym_it[1], section_offsets))} :
          IF r.fail
          THEN /\ Throw("multiple-definition")
               /\ UNCHANGED <<global_symbols, sym_it>>
          ELSE /\ global_symbols' = r.table
               /\ sym_it' = SymPos(all_objects, sym_it[1], sym_it[2] + 1)
               /\ UNCHANGED <<pc, error, output>>
    /\ UNCHANGED <<v_nm, v_input, v_archive, v_merge, output_symbols, local_symbols_by_obj,
                   v_categories, v_layout, reloc_it>>

(***************************************************************************)
(* ld.cpp 225-311: stage two, group the merged sections by category        *)
(***************************************************************************)
\* Line 231, in the order of the vector.
section_categories == <<".text", ".rodata", ".data", ".bss">>

\* Lines 253-280 from position i of all_input_sections on, for one category;
\* c is [sec, offset, to_output, offset_in_output].
RECURSIVE CategoryLoop(_, _, _, _, _)
CategoryLoop(ms, names, i, category_name, c) ==
    IF i > Len(names) THEN c
    ELSE LET sec_name == names[i]
             src_sec == ms[sec_name]
         IN  IF StartsWith(sec_name, category_name)
             THEN CategoryLoop(ms, names, i + 1, category_name,
                    [sec |-> Section(IF category_name # ".bss"
                                     THEN BufAppend(c.sec.data, src_sec.data)
                                     ELSE c.sec.data,
                                     c.sec.relocs \o ShiftRelocs(src_sec.relocs, c.offset)),
                     offset |-> c.offset + src_sec.data.len,
                     to_output |-> MapPut(c.to_output, sec_name, category_name),
                     offset_in_output |-> MapPut(c.offset_in_output, sec_name, c.offset)])
             ELSE CategoryLoop(ms, names, i + 1, category_name, c)

\* Lines 246-285 from category k on; g is [out, to_output, offset_in_output].
RECURSIVE CategoriesFrom(_, _, _, _)
CategoriesFrom(ms, names, k, g) ==
    IF k > Len(section_categories) THEN g
    ELSE LET category_name == section_categories[k]
             c == CategoryLoop(ms, names, 1, category_name,
                    [sec |-> Section(EmptyBuf, <<>>), offset |-> 0,
                     to_output |-> g.to_output, offset_in_output |-> g.offset_in_output])
             kept == c.sec.data.len # 0 \/ c.sec.relocs # <<>> \/ category_name = ".bss"
         IN  CategoriesFrom(ms, names, k + 1,
                [out |-> IF kept THEN MapPut(g.out, category_name, c.sec) ELSE g.out,
                 to_output |-> c.to_output,
                 offset_in_output |-> c.offset_in_output])

\* Lines 288-311 from position i on: the sections no category claimed.
RECURSIVE RemainingFrom(_, _, _, _)
RemainingFrom(ms, names, i, g) ==
    IF i > Len(names) THEN g
    ELSE LET sec_name == names[i]
         IN  IF sec_name \in DOMAIN g.to_output
             THEN RemainingFrom(ms, names, i + 1, g)
             ELSE LET data_sec == IF ".data" \in DOMAIN g.out THEN g.out[".data"]
                                  ELSE Section(EmptyBuf, <<>>)
                      current_offset == data_sec.data.len
                      src_sec == ms[sec_name]
                  IN  RemainingFrom(ms, names, i + 1,
                        [out |-> MapPut(g.out, ".data",
                                   Section(BufAppend(data_sec.data, src_sec.data),
                                           data_sec.relocs \o
                                              ShiftRelocs(src_sec.relocs, current_offset))),
                         to_output |-> MapPut(g.to_output, sec_name, ".data"),
                         offset_in_output |->
                            MapPut(g.offset_in_output, sec_name, current_offset)])

Categorized(ms) ==
    LET all_input_sections == SortedSeq(DOMAIN ms)
    IN  RemainingFrom(ms, all_input_sections, 1,
            CategoriesFrom(ms, all_input_sections, 1,
                [out |-> EmptyMap, to_output |-> EmptyMap, offset_in_output |-> EmptyMap]))

Categorize ==
    /\ pc = "symbols"
    /\ ~InSymbolLoop
    /\ \E g \in {Categorized(merged_sections)} :
          /\ output_sections' = g.out
          /\ sec_to_output' = g.to_output
          /\ sec_offset_in_output' = g.offset_in_output
    /\ pc' = "layout"
    /\ last' = [op |-> "categorize"]
    /\ UNCHANGED <<v_nm, v_input, error, v_archive, v_merge, v_symbols, v_layout, reloc_it,
                   output>>

(***************************************************************************)
(* ld.cpp 313-366: virtual addresses, file offsets, memory sizes           *)
(***************************************************************************)
\* align_to without the "+ alignment - 1" of line 18: it rounds down.
align_down(value, alignment) == (value \div alignment) * alignment

\* (value + alignment - 1) & ~(alignment - 1), alignment a power of two
align_to(value, alignment) == ((value + alignment - 1) \div alignment) * alignment

get_output_section_name(sec_name) ==
    IF StartsWith(sec_name, ".text") THEN ".text"
    ELSE IF StartsWith(sec_name, ".rodata") THEN ".rodata"
    ELSE IF StartsWith(sec_name, ".data") THEN ".data"
    ELSE IF StartsWith(sec_name, ".bss") THEN ".bss"
    ELSE ".data"

output_order == <<".text", ".rodata", ".data", ".bss">>

RECURSIVE SumSizes(_, _)
SumSizes(ms, names) ==
    IF names = {} THEN 0
    ELSE LET n == CHOOSE x \in names : TRUE
         IN  ms[n].data.len + SumSizes(ms, names \ {n})

\* Lines 333-338.
BssSize(ms) == SumSizes(ms, {n \in DOMAIN ms : StartsWith(n, ".bss")})

\* Lines 325-351 from position k of output_order on; y is
\* [vaddr, file, mem, names, current_vaddr_offset, current_file_offset].
RECURSIVE LayoutFrom(_, _, _, _)
LayoutFrom(out, ms, k, y) ==
    IF k > Len(output_order) THEN y
    ELSE LET sec_name == output_order[k]
         IN  IF sec_name \notin DOMAIN out THEN LayoutFrom(out, ms, k + 1, y)
             ELSE LET aligned == align_to(y.current_vaddr_offset, PAGE_SIZE)
                      is_bss == sec_name = ".bss"
                      mem_size == IF is_bss THEN BssSize(ms) ELSE out[sec_name].data.len
                  IN  LayoutFrom(out, ms, k + 1,
                        [vaddr |-> MapPut(y.vaddr, sec_name, aligned),
                         file |-> MapPut(y.file, sec_name,
                                         IF is_bss THEN 0 ELSE y.current_file_offset),
                         mem |-> MapPut(y.mem, sec_name, mem_size),
                         names |-> Append(y.names, sec_name),
                         current_vaddr_offset |-> aligned + mem_size,
                         current_file_offset |->
                            IF is_bss THEN y.current_file_offset
                            ELSE y.current_file_offset + mem_size])

\* Lines 355-366.
MergedSecVaddr(ms, vaddr, offset_in_output) ==
    [sec_name \in {n \in DOMAIN ms : get_output_section_name(n) \in DOMAIN vaddr} |->
        IF sec_name \in DOMAIN offset_in_output
        THEN vaddr[get_output_section_name(sec_name)] + offset_in_output[sec_name]
        ELSE vaddr[get_output_section_name(sec_name)]]

Layout ==
    /\ pc = "layout"
    /\ \E y \in {LayoutFrom(output_sections, merged_sections, 1,
                    [vaddr |-> EmptyMap, file |-> EmptyMap, mem |-> EmptyMap,
                     names |-> <<>>, current_vaddr_offset |-> 0,
                     current_file_offset |-> 0])} :
          /\ section_vaddr_offsets' = y.vaddr
          /\ section_file_offsets' = y.file
          /\ section_mem_sizes' = y.mem
          /\ out_sec_names' = y.names
          /\ merged_sec_vaddr' = MergedSecVaddr(merged_sections, y.vaddr,
                                                sec_offset_in_output)
    /\ pc' = "update"
    /\ last' = [op |-> "layout"]
    /\ UNCHANGED <<v_nm, v_input, error, v_archive, v_merge, v_symbols, v_categories,
                   reloc_it, output>>

(***************************************************************************)
(* ld.cpp 368-409: symbols move to their output section                    *)
(***************************************************************************)
\* Lines 371-384 and 396-408.
ToOutputSection(sym, to_output, offset_in_output) ==
    IF sym.section = "" THEN sym
    ELSE IF sym.section \in DOMAIN to_output
    THEN [sym EXCEPT !.offset = IF sym.section \in DOMAIN offset_in_output
                                THEN @ + offset_in_output[sym.section] ELSE @,
                     !.section = to_output[sym.section]]
    ELSE [sym EXCEPT !.section = get_output_section_name(sym.section)]

\* The order in which a range-for visits the keys of an unordered_map.  The
\* order is fixed by the library's hash table; the model takes one fixed
\* order of each key set.
RECURSIVE IterationOrder(_)
IterationOrder(keys) ==
    IF keys = {} THEN <<>>
    ELSE LET k == CHOOSE x \in keys : TRUE
         IN  <<k>> \o IterationOrder(keys \ {k})

\* Lines 388-392 for the visiting order `order`.
DefinedInOrder(gs, order) ==
    LET defined(name) == gs[name].type # UNDEFINED
    IN  [i \in DOMAIN SelectSeq(order, defined) |-> gs[SelectSeq(order, defined)[i]]]

\* The output sections in std::map order, and the first relocation at or
\* after <<s, i>> (<<Len + 1, 1>> when the loops of 412-413 are over).
RelocSections(out) == SortedSeq(DOMAIN out)

RECURSIVE RelocPos(_, _, _)
RelocPos(out, s, i) ==
    IF s > Len(RelocSections(out)) THEN <<Len(RelocSections(out)) + 1, 1>>
    ELSE IF i <= Len(out[RelocSections(out)[s]].relocs) THEN <<s, i>>
    ELSE RelocPos(out, s + 1, 1)

UpdateSymbols ==
    /\ pc = "update"
    /\ LET updated == [name \in DOMAIN global_symbols |->
                          ToOutputSection(global_symbols[name], sec_to_output,
                                          sec_offset_in_output)]
       IN  /\ global_symbols' = updated
           /\ LET appended == output_symbols
                                \o DefinedInOrder(updated, IterationOrder(DOMAIN updated))
              IN  output_symbols' =
                        [i \in DOMAIN appended |->
                            IF appended[i].type = LOCAL_
                            THEN ToOutputSection(appended[i], sec_to_output,
                                                 sec_offset_in_output)
                            ELSE appended[i]]
    /\ reloc_it' = RelocPos(output_sections, 1, 1)
    /\ pc' = "relocate"
    /\ last' = [op |-> "update"]
    /\ UNCHANGED <<v_nm, v_input, error, v_archive, v_merge, local_symbols_by_obj, sym_it,
                   v_categories, v_layout, output>>

(***************************************************************************)
(* ld.cpp 411-569: relocations                                             *)
(***************************************************************************)
\* std::map operator[] on section_vaddr_offsets: a missing key is inserted
\* with the value 0.
Touched(vaddr, key) == IF key \in DOMAIN vaddr THEN vaddr ELSE MapPut(vaddr, key, 0)

\* What the target lookup of one relocation gives: the exception it throws
\* (error), `continue` (skip) or the address S (sym_vaddr); vaddr is
\* section_vaddr_offsets after the lookups.
TargetFails(vaddr, kind) ==
    [error |-> kind, skip |-> FALSE, sym_vaddr |-> 0, vaddr |-> vaddr]

TargetSkipped(vaddr) ==
    [error |-> "", skip |-> TRUE, sym_vaddr |-> 0, vaddr |-> vaddr]

TargetAt(vaddr, sym_vaddr) ==
    [error |-> "", skip |-> FALSE, sym_vaddr |-> sym_vaddr, vaddr |-> vaddr]

\* Lines 426-432: the range of merged section sec_name in out_sec_name holds
\* the offset.
SectionHolds(sec_name, out_sec_name, offset) ==
    /\ sec_name \in DOMAIN sec_to_output
    /\ sec_to_output[sec_name] = out_sec_name
    /\ sec_name \in DOMAIN sec_offset_in_output
    /\ offset >= sec_offset_in_output[sec_name]
    /\ offset < sec_offset_in_output[sec_name] + merged_sections[sec_name].data.len

\* Lines 425-439: the first merged section, in std::map order, whose range
\* holds the offset; "" if there is none.
FirstSection(S) == CHOOSE x \in S : \A y \in S \ {x} : StrLess(x, y)

OriginSection(out_sec_name, offset) ==
    IF \E n \in DOMAIN merged_sections : SectionHolds(n, out_sec_name, offset)
    THEN FirstSection({n \in DOMAIN merged_sections : SectionHolds(n, out_sec_name, offset)})
    ELSE ""

\* ObjectClaims without the range test of lines 448-454: any object whose
\* label table has the symbol claims the relocation.
ObjectClaimsAnywhere(obj_idx, orig_merged_sec, reloc_offset_in_merged, symbol) ==
    symbol \in DOMAIN local_symbols_by_obj[obj_idx]

\* Lines 447-456: the object's range in orig_merged_sec holds the offset and
\* its label table has the symbol.
ObjectClaims(obj_idx, orig_merged_sec, reloc_offset_in_merged, symbol) ==
    /\ <<obj_idx, orig_merged_sec>> \in DOMAIN section_offsets
    /\ <<obj_idx, orig_merged_sec>> \in DOMAIN section_sizes
    /\ reloc_offset_in_merged >= section_offsets[<<obj_idx, orig_merged_sec>>]
    /\ reloc_offset_in_merged < section_offsets[<<obj_idx, orig_merged_sec>>]
                                    + section_sizes[<<obj_idx, orig_merged_sec>>]
    /\ symbol \in DOMAIN local_symbols_by_obj[obj_idx]

\* Lines 446-473: the first such object, 0 if there is none.
FirstIndex(S) == CHOOSE i \in S : \A j \in S : i <= j

OriginObject(orig_merged_sec, reloc_offset_in_merged, symbol) ==
    IF \E i \in DOMAIN all_objects :
            ObjectClaims(i, orig_merged_sec, reloc_offset_in_merged, symbol)
    THEN FirstIndex({i \in DOMAIN all_objects :
                        ObjectClaims(i, orig_merged_sec, reloc_offset_in_merged, symbol)})
    ELSE 0

\* Lines 457-468.
LabelAddress(vaddr, target_sym) ==
    IF target_sym.section \in DOMAIN merged_sec_vaddr
    THEN TargetAt(vaddr, base_addr + merged_sec_vaddr[target_sym.section]
                            + target_sym.offset)
    ELSE TargetAt(Touched(vaddr, get_output_section_name(target_sym.section)),
                  base_addr
                    + Touched(vaddr, get_output_section_name(target_sym.section))
                        [get_output_section_name(target_sym.section)]
                    + target_sym.offset)

LabelInObject(reloc, vaddr, obj_idx) ==
    IF obj_idx = 0 THEN TargetFails(vaddr, "undefined-local-symbol")
    ELSE LabelAddress(vaddr, local_symbols_by_obj[obj_idx][reloc.symbol])

LabelInSection(reloc, vaddr, orig_merged_sec) ==
    IF orig_merged_sec = "" THEN TargetFails(vaddr, "no-original-section")
    ELSE LabelInObject(reloc, vaddr,
            OriginObject(orig_merged_sec,
                         reloc.offset - sec_offset_in_output[orig_merged_sec],
                         reloc.symbol))

\* Lines 479-499.
GlobalAddress(vaddr, target_sym) ==
    IF target_sym.section # "" /\ target_sym.section \in DOMAIN vaddr
    THEN TargetAt(vaddr, base_addr + vaddr[target_sym.section] + target_sym.offset)
    ELSE TargetAt(vaddr, base_addr + target_sym.offset)

\* GlobalTarget without the test of options.shared of line 483.
GlobalTargetAlwaysThrows(reloc, vaddr) ==
    IF reloc.symbol \notin DOMAIN global_symbols
        \/ global_symbols[reloc.symbol].type = UNDEFINED
    THEN TargetFails(vaddr, "undefined-symbol")
    ELSE GlobalAddress(vaddr, global_symbols[reloc.symbol])

GlobalTarget(reloc, vaddr) ==
    IF reloc.symbol \notin DOMAIN global_symbols
        \/ global_symbols[reloc.symbol].type = UNDEFINED
    THEN IF options.shared THEN TargetSkipped(vaddr)
         ELSE TargetFails(vaddr, "undefined-symbol")
    ELSE GlobalAddress(vaddr, global_symbols[reloc.symbol])

\* Lines 414-500 for one relocation of output section out_sec_name.
Target(reloc, out_sec_name) ==
    IF IsDotName(reloc.symbol)
    THEN LabelInSection(reloc, Touched(section_vaddr_offsets, out_sec_name),
                        OriginSection(out_sec_name, reloc.offset))
    ELSE GlobalTarget(reloc, Touched(section_vaddr_offsets, out_sec_name))

\* Lines 508-520.
reloc_size(type) ==
    IF type \in {R_X86_64_32, R_X86_64_32S, R_X86_64_PC32} THEN 4 ELSE 8

\* Patched without the range tests of lines 531, 541 and 551: the low 32 bits
\* are stored whatever the value.
PatchedUnchecked(reloc, data, sum, rel) ==
    CASE reloc.type \in {R_X86_64_32, R_X86_64_32S} ->
            [error |-> "", data |-> Store32(data, reloc.offset, sum)]
      [] reloc.type = R_X86_64_PC32 ->
            [error |-> "", data |-> Store32(data, reloc.offset, rel)]
      [] reloc.type = R_X86_64_64 ->
            [error |-> "", data |-> Store64(data, reloc.offset, sum)]
      [] OTHER -> [error |-> "unsupported-relocation", data |-> data]

\* Lines 527-567: [error, data] of the patch, sum being sym_vaddr + addend and
\* rel being sym_vaddr + addend - P.
Patched(reloc, data, sum, rel) ==
    CASE reloc.type = R_X86_64_32 ->
            IF AboveUint32(sum) THEN [error |-> "relocation-overflow", data |-> data]
            ELSE [error |-> "", data |-> Store32(data, reloc.offset, sum)]
      [] reloc.type = R_X86_64_32S ->
            IF OutsideInt32(sum) THEN [error |-> "relocation-overflow", data |-> data]
            ELSE [error |-> "", data |-> Store32(data, reloc.offset, sum)]
      [] reloc.type = R_X86_64_PC32 ->
            IF OutsideInt32(rel) THEN [error |-> "relocation-overflow", data |-> data]
            ELSE [error |-> "", data |-> Store32(data, reloc.offset, rel)]
      [] reloc.type = R_X86_64_64 ->
            [error |-> "", data |-> Store64(data, reloc.offset, sum)]
      [] OTHER -> [error |-> "unsupported-relocation", data |-> data]

Patch(reloc, data, sym_vaddr, P) ==
    Patched(reloc, data, Add64(W64(sym_vaddr), reloc.addend),
            Sub64(Add64(W64(sym_vaddr), reloc.addend), W64(P)))

\* Lines 502-524: the relocation is dropped without a patch.
InBss(out_sec_name) == out_sec_name = ".bss"

OutOfBounds(reloc, data) == reloc.offset + reloc_size(reloc.type) > data.len

\* What one iteration of the loop of line 413 does.
Outcome(kind, thrown, data, t, P) ==
    [outcome |-> kind, error |-> thrown, data |-> data, vaddr |-> t.vaddr,
     S |-> t.sym_vaddr, P |-> P]

AfterPatch(data, t, P, p) ==
    IF p.error # "" THEN Outcome("failed", p.error, data, t, P)
    ELSE Outcome("patched", "", p.data, t, P)

AfterTarget(reloc, out_sec_name, data, t, P) ==
    IF t.error # "" THEN Outcome("failed", t.error, data, t, P)
    ELSE IF t.skip THEN Outcome("skipped-undefined", "", data, t, P)
    ELSE IF InBss(out_sec_name) THEN Outcome("skipped-bss", "", data, t, P)
    ELSE IF OutOfBounds(reloc, data) THEN Outcome("skipped-bounds", "", data, t, P)
    ELSE AfterPatch(data, t, P, Patch(reloc, data, t.sym_vaddr, P))

Relocated(reloc, out_sec_name, data) ==
    AfterTarget(reloc, out_sec_name, data, Target(reloc, out_sec_name),
                base_addr + Touched(section_vaddr_offsets, out_sec_name)[out_sec_name]
                    + reloc.offset)

InRelocLoop == pc = "relocate" /\ reloc_it[1] <= Len(RelocSections(output_sections))

CurrentRelocSection == RelocSections(output_sections)[reloc_it[1]]

CurrentReloc == output_sections[CurrentRelocSection].relocs[reloc_it[2]]

ProcessRelocation ==
    /\ InRelocLoop
    /\ \E r \in {Relocated(CurrentReloc, CurrentRelocSection,
                           output_sections[CurrentRelocSection].data)} :
          /\ last' = [op |-> "reloc", section |-> CurrentRelocSection,
                      index |-> reloc_it[2], reloc |-> CurrentReloc,
                      outcome |-> r.outcome, S |-> r.S, P |-> r.P,
                      before |-> output_sections[CurrentRelocSection].data]
          /\ section_vaddr_offsets' = r.vaddr
          /\ IF r.outcome = "failed"
             THEN /\ Throw(r.error)
                  /\ UNCHANGED <<output_sections, reloc_it>>
             ELSE /\ output_sections' =
                        [output_sections EXCEPT ![CurrentRelocSection].data = r.data]
                  /\ reloc_it' = RelocPos(output_sections, reloc_it[1], reloc_it[2] + 1)
                  /\ UNCHANGED <<pc, error, output>>
    /\ UNCHANGED <<v_nm, v_input, v_archive, v_merge, v_symbols, sec_to_output,
                   sec_offset_in_output, section_file_offsets, section_mem_sizes,
                   out_sec_names, merged_sec_vaddr>>

(***************************************************************************)
(* ld.cpp 571-655: the returned image                                      *)
(***************************************************************************)
\* Lines 585-609; the flags are the set of SHF bits that are set.
SectionHeaderOf(sec_name) ==
    [name |-> sec_name,
     type |-> 1,
     flags |-> {"ALLOC"}
               \cup (IF sec_name = ".text" THEN {"EXEC"}
                     ELSE IF sec_name = ".rodata" THEN {} ELSE {"WRITE"})
               \cup (IF sec_name = ".bss" THEN {"NOBITS"} ELSE {}),
     addr |-> base_addr + section_vaddr_offsets[sec_name],
     offset |-> section_file_offsets[sec_name],
     size |-> section_mem_sizes[sec_name]]

\* Lines 614-629; the flags are the set of PHF bits that are set.
ProgramHeaderOf(sec_name) ==
    [name |-> sec_name,
     vaddr |-> base_addr + section_vaddr_offsets[sec_name],
     size |-> section_mem_sizes[sec_name],
     flags |-> IF sec_name = ".text" THEN {"R", "X"}
               ELSE IF sec_name = ".rodata" THEN {"R"} ELSE {"R", "W"}]

\* EntryPoint without lines 632-646: the entry symbol is not looked up.
EntryPointWithoutLookup ==
    IF ".text" \in DOMAIN section_vaddr_offsets
    THEN base_addr + section_vaddr_offsets[".text"]
    ELSE base_addr

\* Lines 632-653.
EntryPoint ==
    IF options.entryPoint \in DOMAIN global_symbols
    THEN LET sym == global_symbols[options.entryPoint]
         IN  IF sym.section # "" /\ sym.section \in DOMAIN section_vaddr_offsets
             THEN base_addr + section_vaddr_offsets[sym.section] + sym.offset
             ELSE base_addr + sym.offset
    ELSE IF ".text" \in DOMAIN section_vaddr_offsets
    THEN base_addr + section_vaddr_offsets[".text"]
    ELSE base_addr

\* Lines 571-576.
FinalSections ==
    IF options.shared THEN output_sections
    ELSE [n \in DOMAIN output_sections |-> [output_sections[n] EXCEPT !.relocs = <<>>]]

Finish ==
    /\ pc = "relocate"
    /\ ~InRelocLoop
    /\ output_sections' = FinalSections
    /\ output' = [type |-> IF options.shared THEN ".so" ELSE ".exe",
                  sections |-> FinalSections,
                  symbols |-> output_symbols,
                  shdrs |-> [i \in DOMAIN out_sec_names |-> SectionHeaderOf(out_sec_names[i])],
                  phdrs |-> [i \in DOMAIN out_sec_names |-> ProgramHeaderOf(out_sec_names[i])],
                  entry |-> EntryPoint]
    /\ pc' = "done"
    /\ last' = [op |-> "finish"]
    /\ UNCHANGED <<v_nm, v_input, error, v_archive, v_merge, v_symbols, sec_to_output,
                   sec_offset_in_output, v_layout, reloc_it>>

(***************************************************************************)
(* nm.cpp 6-79: FLE_nm                                                     *)
(***************************************************************************)
v_linker == <<v_input, error, v_archive, v_merge, v_symbols, v_categories, v_layout,
              reloc_it, last, output>>

\* Lines 13-23: the comparator handed to std::sort.
NmLess(a, b) ==
    IF a.type = UNDEFINED /\ b.type # UNDEFINED THEN FALSE
    ELSE IF a.type # UNDEFINED /\ b.type = UNDEFINED THEN TRUE
    ELSE IF a.section # b.section THEN StrLess(a.section, b.section)
    ELSE a.offset < b.offset

\* Line 12: std::sort is not stable, so the result is any arrangement of the
\* symbols in which no symbol comes before one that is less than it.
Arrangements(n) == {p \in [1..n -> 1..n] : \A i, j \in 1..n : i # j => p[i] # p[j]}

Sorted(symbols) ==
    {[i \in DOMAIN symbols |-> symbols[p[i]]] :
        p \in {q \in Arrangements(Len(symbols)) :
                  \A i, j \in DOMAIN symbols :
                      i < j => ~NmLess(symbols[q[j]], symbols[q[i]])}}

\* Lines 28-32.
NmAddress(sym) == IF sym.type # UNDEFINED THEN sym.offset ELSE 0

\* Lines 44-54.
base_char(sec) ==
    IF StartsWith(sec, ".text") THEN "T"
    ELSE IF StartsWith(sec, ".data") THEN "D"
    ELSE IF StartsWith(sec, ".bss") THEN "B"
    ELSE IF StartsWith(sec, ".rodata") THEN "R"
    ELSE "?"

\* std::tolower without the change of case.
tolower_unchanged(c) == c

\* std::tolower on the values of base_char.
tolower(c) ==
    CASE c = "T" -> "t" [] c = "D" -> "d" [] c = "B" -> "b" [] c = "R" -> "r"
      [] OTHER -> c

\* Lines 35-73.
type_char(sym) ==
    IF sym.type = UNDEFINED THEN "U"
    ELSE CASE sym.type = LOCAL_ -> tolower(base_char(sym.section))
           [] sym.type = GLOBAL -> base_char(sym.section)
           [] sym.type = WEAK ->
                IF StartsWith(sym.section, ".text") THEN "W"
                ELSE IF \/ StartsWith(sym.section, ".data")
                        \/ StartsWith(sym.section, ".bss")
                        \/ StartsWith(sym.section, ".rodata")
                THEN "V"
                ELSE base_char(sym.section)
           [] OTHER -> base_char(sym.section)

\* std::hex: the digits of n to the base 16, without leading zeros.
HexDigits == "0123456789abcdef"

RECURSIVE Hex(_)
Hex(n) ==
    IF n < 16 THEN SubSeq(HexDigits, n + 1, n + 1)
    ELSE Hex(n \div 16) \o SubSeq(HexDigits, (n % 16) + 1, (n % 16) + 1)

\* std::setfill(fill) << std::setw(width)
RECURSIVE SetW(_, _, _)
SetW(str, width, fill) ==
    IF Len(str) >= width THEN str ELSE SetW(fill \o str, width, fill)

\* Lines 76-77: the line written for sym.
NmLine(sym) ==
    SetW(Hex(NmAddress(sym)), 16, "0") \o " " \o type_char(sym) \o " " \o sym.name

\* Lines 9-23.
NmSort ==
    /\ pc = "nm"
    /\ nm_symbols' \in Sorted(nm_obj.symbols)
    /\ nm_it' = 1
    /\ pc' = "nm-print"
    /\ UNCHANGED <<v_linker, nm_obj, nm_lines>>

\* One iteration of the loop of line 26.
NmPrintLine ==
    /\ pc = "nm-print"
    /\ nm_it <= Len(nm_symbols)
    /\ nm_lines' = Append(nm_lines, NmLine(nm_symbols[nm_it]))
    /\ nm_it' = nm_it + 1
    /\ UNCHANGED <<v_linker, pc, nm_obj, nm_symbols>>

\* Line 79.
NmReturn ==
    /\ pc = "nm-print"
    /\ nm_it > Len(nm_symbols)
    /\ pc' = "nm-done"
    /\ UNCHANGED <<v_linker, v_nm>>

(***************************************************************************)
(* The inputs of a link                                                    *)
(***************************************************************************)
\* Bounds of the inputs.
MaxSymObjs == 3

MaxPads == 1

MaxMembers == 3

MaxArchives == 2

\* A section's bytes: len bytes, non-zero in the first 16 and in the last.
Fill(len, tag) ==
    [len |-> len,
     nz |-> [i \in {j \in 0..(len - 1) : j < 16 \/ j = len - 1} |-> tag + (i % 8)]]

Bindings == {GLOBAL, WEAK, LOCAL_, UNDEFINED}

\* A symbol `name` of binding b; a definition lies in .text at offset 4.
Bound(name, b) ==
    IF b = UNDEFINED THEN Sym(name, UNDEFINED, "", 0) ELSE Sym(name, b, ".text", 4)

\* Family 1: objects that declare "foo" with each binding, for the
\* resolution of one name across objects.  Every object has 8 bytes of .text
\* and one reference to foo.
SymObject(syms) ==
    Object("sym.o",
           [n \in {".text"} |->
               Section(Fill(8, 16), <<Reloc(R_X86_64_32, 0, "foo", I64(0))>>)],
           syms)

SymObjects ==
    {SymObject(<<Bound("foo", b)>>) : b \in Bindings}
        \cup {SymObject(<<Sym("bar", GLOBAL, ".text", 0), Bound("foo", WEAK)>>),
              SymObject(<<Sym(".L0", GLOBAL, ".text", 2), Bound("foo", LOCAL_)>>)}

\* Family 2: a site object with one relocation, a target object, and pad
\* objects in front of them, for layout and relocation arithmetic.
two32 == <<0, 0, 1, 0>>

int32_max == <<Limb - 1, 32767, 0, 0>>

int64_max == <<Limb - 1, Limb - 1, Limb - 1, 32767>>

Addends ==
    {I64(-4), I64(0),
     Sub64(two32, W64(base_addr + 72)),        \* foo at offset 72: S + A = 2^32
     Sub64(int32_max, W64(base_addr + 32)),    \* foo at offset 32: S + A = INT32_MAX
     Sub64(Neg64(W64(67)), Add64(int32_max, W64(1))),  \* S - P = 67: INT32_MIN
     int64_max}

RelocTypes == {R_X86_64_32, R_X86_64_32S, R_X86_64_PC32, R_X86_64_64}

\* The relocation of the site object, before its offset is chosen.
SiteRelocs ==
    {Reloc(t, 0, s, a) : t \in RelocTypes, s \in {"foo", "dat", ".L0"}, a \in Addends}
        \cup {Reloc(t, 0, s, I64(-4)) :
                t \in {R_X86_64_PC32, R_X86_64_64}, s \in {"und", "missing", ".L1", ".L9"}}
        \cup {Reloc(R_X86_64_PC32, 0, "hot", a) : a \in {I64(-4), I64(0)}}
        \cup {Reloc("R_X86_64_PLT32", 0, "foo", I64(-4))}

SiteSections == {".text", ".text.hot", ".data", ".bss"}

\* Offset 5 is inside the section; a patch at offset 14 of the 16 bytes of
\* .text.hot, .data or .bss (38 of the 40 of .text) runs over its end.
SiteOffsets(sec_name) == {5, IF sec_name = ".text" THEN 38 ELSE 14}

SiteObject(sec_name, reloc) ==
    LET size(n) == IF n = ".text" THEN 40 ELSE 16
    IN  Object("site.o",
               [n \in SiteSections |->
                   Section(Fill(size(n), 32), IF n = sec_name THEN <<reloc>> ELSE <<>>)],
               <<Sym(".L0", LOCAL_, ".text", 16), Sym("und", UNDEFINED, "", 0),
                 Sym("_start", GLOBAL, ".text", 0)>>)

TargetObject ==
    Object("target.o",
           [n \in {".text", ".text.hot", ".rodata", ".data", ".bss"} |->
               Section(Fill(IF n = ".text" THEN 40 ELSE 16, 48),
                       IF n = ".text"
                       THEN <<Reloc(R_X86_64_PC32, 8, ".L0", I64(-4)),
                              Reloc(R_X86_64_64, 24, "dat", I64(0))>>
                       ELSE <<>>)],
           <<Sym("foo", GLOBAL, ".text", 32), Sym(".L0", LOCAL_, ".text", 24),
             Sym(".L1", LOCAL_, ".text", 28), Sym("hot", GLOBAL, ".text.hot", 4),
             Sym("dat", GLOBAL, ".data", 8), Sym("und", UNDEFINED, "", 0)>>)

\* 4016 bytes of .text, so that with the 80 bytes of the two objects behind
\* it .text ends on a page boundary; .init belongs to no category.
PadObject ==
    Object("pad.o",
           [n \in {".text", ".init"} |->
               Section(Fill(IF n = ".text" THEN PAGE_SIZE - 80 ELSE 8, 64), <<>>)],
           <<Sym("pad", WEAK, ".init", 4)>>)

\* Family 3: a main object that needs "a", and archives whose members
\* define one name and need at most one other.
MainObject ==
    Object("main.o", [n \in {".text"} |-> Section(Fill(8, 80), <<>>)],
           <<Sym("_start", GLOBAL, ".text", 0), Sym("a", UNDEFINED, "", 0)>>)

Member(def, needs) ==
    Object(def \o ".o", [n \in {".text"} |-> Section(Fill(8, 96), <<>>)],
           <<Sym(def, GLOBAL, ".text", 0)>>
               \o (IF needs = "" THEN <<>> ELSE <<Sym(needs, UNDEFINED, "", 0)>>))

Members == {Member("a", "b"), Member("b", ""), Member("b", "c"), Member("c", "a")}

\* The archives that hold the members ms, member i in archive part[i].
ArchivesOf(ms, part, k) ==
    [j \in 1..k |->
        Archive("lib" \o ToString(j) \o ".a",
                LET mine(i) == part[i] = j
                    idx == SelectSeq([i \in DOMAIN ms |-> i], mine)
                IN  [i \in DOMAIN idx |-> ms[idx[i]]])]

\* Family 4: an object with 16 bytes of .data that declares the entry symbol
\* with binding b at offset 8 of .data (not at all when b is ""), alone or
\* behind an object with .text.
EntryBindings == {"", UNDEFINED, GLOBAL, WEAK}

EntryObject(b) ==
    Object("entry.o", [n \in {".data"} |-> Section(Fill(16, 112), <<>>)],
           IF b = "" THEN <<Sym("dat", GLOBAL, ".data", 4)>>
           ELSE IF b = UNDEFINED THEN <<Sym("_start", UNDEFINED, "", 0)>>
           ELSE <<Sym("_start", b, ".data", 8)>>)

TextObject ==
    Object("text.o", [n \in {".text"} |-> Section(Fill(8, 16), <<>>)],
           <<Sym("bar", GLOBAL, ".text", 0)>>)

InitInputs ==
    \/ \E n \in 1..MaxSymObjs : \E objs \in [1..n -> SymObjects] :
          objects = objs
    \/ \E pads \in 0..MaxPads : \E sec_name \in SiteSections : \E reloc \in SiteRelocs :
       \E offset \in SiteOffsets(sec_name) : \E site_first \in BOOLEAN :
          LET site == SiteObject(sec_name, [reloc EXCEPT !.offset = offset])
          IN  objects = [i \in 1..pads |-> PadObject]
                            \o (IF site_first THEN <<site, TargetObject>>
                                ELSE <<TargetObject, site>>)
    \/ \E n \in 0..MaxMembers : \E ms \in [1..n -> Members] :
       \E k \in 1..MaxArchives : \E part \in [1..n -> 1..k] :
          /\ \A i, j \in 1..n : i < j => part[i] <= part[j]
          /\ \E with_main \in BOOLEAN :
                objects = (IF with_main THEN <<MainObject>> ELSE <<>>)
                            \o ArchivesOf(ms, part, k)
    \/ \E b \in EntryBindings : \E with_text \in BOOLEAN :
          objects = (IF with_text THEN <<TextObject>> ELSE <<>>) \o <<EntryObject(b)>>

\* The state of FLE_ld before its first statement, its arguments apart.
LinkerIdle ==
    /\ error = ""
    /\ archives = <<>>
    /\ all_objects = <<>>
    /\ resolved_symbols = {}
    /\ undefined_symbols = {}
    /\ changed = FALSE
    /\ archive_it = 1
    /\ member_it = 1
    /\ archive_used = FALSE
    /\ pass = StartOfLoop(0)
    /\ merged_sections = EmptyMap
    /\ section_offsets = EmptyMap
    /\ section_sizes = EmptyMap
    /\ global_symbols = EmptyMap
    /\ output_symbols = <<>>
    /\ local_symbols_by_obj = <<>>
    /\ sym_it = <<1, 1>>
    /\ output_sections = EmptyMap
    /\ sec_to_output = EmptyMap
    /\ sec_offset_in_output = EmptyMap
    /\ section_vaddr_offsets = EmptyMap
    /\ section_file_offsets = EmptyMap
    /\ section_mem_sizes = EmptyMap
    /\ out_sec_names = <<>>
    /\ merged_sec_vaddr = EmptyMap
    /\ reloc_it = <<1, 1>>
    /\ last = NoStep
    /\ output = NoOutput

\* FLE_nm has not been called.
NmIdle ==
    /\ nm_obj = Object("", EmptyMap, <<>>)
    /\ nm_symbols = <<>>
    /\ nm_it = 1
    /\ nm_lines = <<>>

Init ==
    /\ InitInputs
    /\ options \in [shared : BOOLEAN, entryPoint : {"_start"}]
    /\ pc = "start"
    /\ LinkerIdle
    /\ NmIdle

Next ==
    \/ Partition
    \/ PullMember
    \/ SkipMember
    \/ EndArchive
    \/ EndPass
    \/ MergeSections
    \/ RecordLocalLabel
    \/ ResolveSymbol
    \/ Categorize
    \/ Layout
    \/ UpdateSymbols
    \/ ProcessRelocation
    \/ Finish

Spec == Init /\ [][Next]_vars

(***************************************************************************)
(* The inputs of a listing                                                 *)
(***************************************************************************)
MaxNmSyms == 2

NmSections == {"", ".text", ".data.rel", ".bss", ".rodata", ".init"}

\* 43981 is 0xabcd.
NmOffsets == {8, 43981}

\* The symbols of the listed object: every binding in every kind of
\* section; a symbol without a section is undefined or (with binding global)
\* a definition outside every section.
NmSymbols ==
    {Sym(IF o = 8 THEN "f" ELSE ".L0", b, sec, o) :
        b \in Bindings, sec \in NmSections, o \in NmOffsets}

\* The listed object has 1..MaxNmSyms of these symbols.
NmInputs ==
    \E n \in 1..MaxNmSyms : \E syms \in [1..n -> NmSymbols] :
        nm_obj = Object("a.o", EmptyMap, syms)

NmInit ==
    /\ NmInputs
    /\ nm_symbols = <<>>
    /\ nm_it = 1
    /\ nm_lines = <<>>
    /\ pc = "nm"
    /\ objects = <<>>
    /\ options = [shared |-> FALSE, entryPoint |-> "_start"]
    /\ LinkerIdle

NmNext ==
    \/ NmSort
    \/ NmPrintLine
    \/ NmReturn

NmSpec == NmInit /\ [][NmNext]_vars

(***************************************************************************)
(* Properties                                                              *)
(***************************************************************************)
\* The bytes of section sec_name in the objects before position j: the
\* start of object j in the merged buffer of that name.
SizeIn(obj, sec_name) ==
    IF sec_name \in DOMAIN obj.sections THEN obj.sections[sec_name].data.len ELSE 0

RECURSIVE PrecedingSize(_, _, _)
PrecedingSize(objs, j, sec_name) ==
    IF j <= 1 THEN 0
    ELSE PrecedingSize(objs, j - 1, sec_name) + SizeIn(objs[j - 1], sec_name)

\* A symbol of object obj_idx as it is installed: its offset counted from
\* the start of the merged buffer of its section.
Installed(sym, obj_idx) ==
    IF sym.section # "" /\ sym.section \in DOMAIN all_objects[obj_idx].sections
    THEN [sym EXCEPT !.offset = @ + PrecedingSize(all_objects, obj_idx, sym.section)]
    ELSE sym

\* The table of section 4.3 of the specification.
Precedence(existing, candidate) ==
    CASE existing = GLOBAL /\ candidate = GLOBAL -> "fail"
      [] existing = GLOBAL /\ candidate \in {WEAK, UNDEFINED} -> "keep"
      [] existing = WEAK /\ candidate = GLOBAL -> "replace"
      [] existing = WEAK /\ candidate \in {WEAK, UNDEFINED} -> "keep"
      [] existing = UNDEFINED /\ candidate \in {GLOBAL, WEAK} -> "replace"
      [] existing = UNDEFINED /\ candidate = UNDEFINED -> "keep"

NonLocalBindings == {GLOBAL, WEAK, UNDEFINED}

ResolvedAsTable(table, sym, obj_idx) ==
    IF sym.name \notin DOMAIN table
    THEN pc # "failed" /\ global_symbols = MapPut(table, sym.name, Installed(sym, obj_idx))
    ELSE CASE Precedence(table[sym.name].type, sym.type) = "fail" ->
                pc = "failed" /\ error = "multiple-definition" /\ output = NoOutput
           [] Precedence(table[sym.name].type, sym.type) = "keep" ->
                pc # "failed" /\ global_symbols = table
           [] Precedence(table[sym.name].type, sym.type) = "replace" ->
                pc # "failed"
                /\ global_symbols = MapPut(table, sym.name, Installed(sym, obj_idx))

\* C1: when symbol resolution has handled a candidate of binding global, weak
\* or undefined whose name is not dot-prefixed, against a table that has no
\* entry for the name or an entry of binding global, weak or undefined, the
\* table is what the precedence table says: the candidate installed (with its
\* offset rewritten to the merged buffer) when there was no entry or the verdict
\* is replace, the table unchanged when it is keep, and the link failed with
\* multiple-definition when both are global.
ResolutionPrecedence ==
    (/\ last.op = "resolve"
     /\ last.sym.type \in NonLocalBindings
     /\ last.sym.name \in DOMAIN last.table
            => last.table[last.sym.name].type \in NonLocalBindings)
        => ResolvedAsTable(last.table, last.sym, last.obj_idx)

\* C1 witness: an undefined entry has just been replaced by a weak definition
\* of a later object, whose offset was rewritten.
ResolutionPrecedenceWitness ==
    /\ last.op = "resolve"
    /\ last.sym.name \in DOMAIN last.table
    /\ last.table[last.sym.name].type = UNDEFINED
    /\ last.sym.type = WEAK
    /\ last.obj_idx > 1
    /\ global_symbols[last.sym.name].type = WEAK
    /\ global_symbols[last.sym.name].offset > last.sym.offset

\* The stages after the symbol loop has ended without an exception.
ResolutionDone ==
    \/ pc \in {"layout", "update", "relocate", "done"}
    \/ pc = "symbols" /\ ~InSymbolLoop

SymbolNames == {sym.name : sym \in AllSymbols(all_objects)}

\* The objects that define name with global binding.
StrongObjects(name) ==
    {i \in DOMAIN all_objects :
        \E k \in DOMAIN all_objects[i].symbols :
            /\ all_objects[i].symbols[k].name = name
            /\ all_objects[i].symbols[k].type = GLOBAL}

OutputEntries(name) == {i \in DOMAIN output.symbols : output.symbols[i].name = name}

StrongDecides(name) ==
    /\ Cardinality(StrongObjects(name)) >= 2 => ~ResolutionDone
    /\ Cardinality(StrongObjects(name)) = 1 =>
        /\ ~(pc = "failed" /\ error = "multiple-definition" /\ last.sym.name = name)
        /\ ResolutionDone =>
            /\ name \in DOMAIN global_symbols
            /\ global_symbols[name].type = GLOBAL
        /\ pc = "done" =>
            /\ Cardinality(OutputEntries(name)) = 1
            /\ \A i \in OutputEntries(name) : output.symbols[i].type = GLOBAL

\* C2: for every name that is not dot-prefixed, the link does not get past
\* symbol resolution when two or more participating objects define the name
\* with global binding; and when exactly one does, the link does not fail with
\* multiple-definition on the name, the global table resolves the name to a
\* global definition, and the returned symbol list has exactly one entry of
\* that name, of binding global.
StrongDefinitionDecides ==
    \A name \in {n \in SymbolNames : ~IsDotName(n)} : StrongDecides(name)

\* name begins with `.` OR binding is local
IsLocalSymbol(sym) == IsDotName(sym.name) \/ sym.type = LOCAL_

IsNotLocalSymbol(sym) == ~IsLocalSymbol(sym)

WithoutLocals(objs) ==
    [i \in DOMAIN objs |-> [objs[i] EXCEPT !.symbols = SelectSeq(@, IsNotLocalSymbol)]]

\* The outcome [fail, table] of symbol resolution on objs from the symbol at
\* position pos on, starting from table r.table.
RECURSIVE ResolveFrom(_, _, _)
ResolveFrom(objs, pos, r) ==
    IF r.fail \/ pos[1] > Len(objs) THEN r
    ELSE ResolveFrom(objs, SymPos(objs, pos[1], pos[2] + 1),
            IF IsDotName(objs[pos[1]].symbols[pos[2]].name) THEN r
            ELSE Resolve(r.table,
                         Rebased(objs[pos[1]].symbols[pos[2]], pos[1], section_offsets)))

ResolvedWithoutLocals ==
    ResolveFrom(WithoutLocals(all_objects), SymPos(WithoutLocals(all_objects), 1, 1),
                [fail |-> FALSE, table |-> EmptyMap])

\* C3: no entry of the global table is a local symbol; when symbol resolution
\* has ended, the global table is the table that the same objects give with
\* their local symbols removed; and resolution fails only if it fails with the
\* local symbols removed.
LocalSymbolsStayLocal ==
    /\ \A name \in DOMAIN global_symbols : ~IsLocalSymbol(global_symbols[name])
    /\ (pc = "symbols" /\ ~InSymbolLoop) =>
            /\ ~ResolvedWithoutLocals.fail
            /\ global_symbols = ResolvedWithoutLocals.table
    /\ (pc = "failed" /\ error = "multiple-definition") => ResolvedWithoutLocals.fail

\* A member defines name: it has a symbol of that name whose binding is
\* neither undefined nor local.
MemberDefines(member, name) ==
    \E k \in DOMAIN member.symbols :
        /\ member.symbols[k].name = name
        /\ member.symbols[k].type \notin {UNDEFINED, LOCAL_}

IsPulled(member) == \E i \in DOMAIN all_objects : all_objects[i] = member

SuppliedMembers ==
    UNION {Range(objects[i].members) : i \in {j \in DOMAIN objects : IsArchive(objects[j])}}

\* C4: when the archive loop has ended, no member of a supplied archive that
\* was not pulled defines a name that is still in the undefined set.
ArchiveFixedPoint ==
    pc \notin {"start", "archives"} =>
        \A member \in SuppliedMembers :
            ~IsPulled(member) =>
                \A name \in undefined_symbols : ~MemberDefines(member, name)

\* The least multiple of 4096 that is not below x.
AlignUp(x) == CHOOSE m \in x..(x + 4095) : m % 4096 = 0

HeaderNames(headers) == [i \in DOMAIN headers |-> headers[i].name]

\* The sections of names that are in present, in the order of names.
PresentIn(names, present) ==
    LET isPresent(n) == n \in present IN SelectSeq(names, isPresent)

\* The headers are those of the present output sections in the order .text,
\* .rodata, .data, .bss; the first lies at 0x400000, each next one at the
\* page boundary at or after the end of the one before, and every section but
\* .bss has the size of its bytes.
LaidOut(headers, sections) ==
    /\ HeaderNames(headers)
          = PresentIn(<<".text", ".rodata", ".data", ".bss">>, DOMAIN sections)
    /\ headers # <<>> => headers[1].vaddr = 4194304
    /\ \A i \in DOMAIN headers :
          /\ headers[i].name # ".bss" => headers[i].size = sections[headers[i].name].data.len
          /\ i > 1 => headers[i].vaddr = AlignUp(headers[i - 1].vaddr + headers[i - 1].size)
    /\ \A i, j \in DOMAIN headers :
          i < j => headers[i].vaddr + headers[i].size <= headers[j].vaddr

SectionHeaderAsProgramHeader(shdr) ==
    [name |-> shdr.name, vaddr |-> shdr.addr, size |-> shdr.size]

\* C5: in the returned image the program headers and the section headers obey
\* the layout rule: first present section at 0x400000, vaddr(next) =
\* align_up(vaddr(prev) + memsize(prev), 4096) for adjacent present sections in
\* the order .text, .rodata, .data, .bss, and no two address ranges overlap.
LayoutInvariant ==
    pc = "done" =>
        /\ LaidOut(output.phdrs, output.sections)
        /\ LaidOut([i \in DOMAIN output.shdrs |->
                        SectionHeaderAsProgramHeader(output.shdrs[i])],
                   output.sections)

\* C5 witness: an image with all four sections whose .text is larger than a
\* page, so that .rodata lies two pages after the base.
LayoutInvariantWitness ==
    /\ pc = "done"
    /\ Len(output.phdrs) = 4
    /\ output.phdrs[1].size > 4096
    /\ output.phdrs[2].vaddr = 4194304 + 8192
    /\ output.phdrs[3].vaddr = 4194304 + 12288

\* The symbol of the last relocation is not dot-prefixed and is absent from
\* the global table or undefined in it.
LastIsUndefinedReference ==
    /\ last.op = "reloc"
    /\ ~IsDotName(last.reloc.symbol)
    /\ \/ last.reloc.symbol \notin DOMAIN global_symbols
       \/ global_symbols[last.reloc.symbol].type = UNDEFINED

\* C6: a relocation against a name that is not dot-prefixed and is absent from
\* the global table or undefined fails the link with undefined-symbol when the
\* output is executable; when it is shared the bytes of the section and the
\* relocation in the section's list are unchanged and the loop goes on with
\* the next relocation, and the returned image keeps the relocation lists.
UndefinedReference ==
    /\ LastIsUndefinedReference =>
          IF options.shared
          THEN /\ pc = "relocate"
               /\ output_sections[last.section].data = last.before
               /\ output_sections[last.section].relocs[last.index] = last.reloc
               /\ reloc_it[1] <= Len(RelocSections(output_sections)) =>
                     /\ StrLess(last.section, CurrentRelocSection)
                            \/ (last.section = CurrentRelocSection
                                /\ reloc_it[2] = last.index + 1)
          ELSE pc = "failed" /\ error = "undefined-symbol" /\ output = NoOutput
    /\ (pc = "done" /\ options.shared) =>
          \A n \in DOMAIN output.sections :
              output.sections[n].relocs = Categorized(merged_sections).out[n].relocs

\* C6 witness: shared output, an undefined reference was skipped and
\* relocations remain to be processed.
UndefinedReferenceWitness ==
    /\ LastIsUndefinedReference
    /\ options.shared
    /\ InRelocLoop
    /\ last.before.nz # EmptyMap

\* The last relocation's target was found: the lookup neither threw nor
\* skipped the relocation.
LastTargetResolved ==
    /\ last.op = "reloc"
    /\ last.outcome # "skipped-undefined"
    /\ ~(pc = "failed"
         /\ error \in {"undefined-symbol", "undefined-local-symbol", "no-original-section"})

KindWidth(type) == IF type = R_X86_64_64 THEN 8 ELSE 4

LastPatchSiteOutside ==
    last.reloc.offset + KindWidth(last.reloc.type) > last.before.len

\* C7: a relocation of one of the four kinds in an output section other than
\* .bss whose target is found and whose patch site extends past the section's
\* bytes fails the link with relocation-out-of-bounds, and no image is returned.
OutOfBoundsFails ==
    (/\ LastTargetResolved
     /\ last.reloc.type \in RelocTypes
     /\ last.section # ".bss"
     /\ LastPatchSiteOutside)
        => pc = "failed" /\ error = "relocation-out-of-bounds" /\ output = NoOutput

\* C8: a relocation in the .bss output section never writes bytes and never
\* fails the link.
BssRelocationsSkipped ==
    (last.op = "reloc" /\ last.section = ".bss")
        => pc # "failed" /\ output_sections[".bss"].data = last.before

\* The integer S + A - P as digits <<d0, d1, d2, d3>> to the base 2^16, the
\* value being d0 + d1 * 2^16 + d2 * 2^32 + d3 * 2^48 with 0 <= d0, d1, d2 <
\* 2^16 and d3 any integer; A is the two's-complement reading of the addend.
Carry(n) == n \div 65536

Digit(n) == n % 65536

SignedTop(limb) == IF limb >= 32768 THEN limb - 65536 ELSE limb

Exact(S, addend, P) ==
    <<Digit(S + addend[1] - P),
      Digit(addend[2] + Carry(S + addend[1] - P)),
      Digit(addend[3] + Carry(addend[2] + Carry(S + addend[1] - P))),
      SignedTop(addend[4])
          + Carry(addend[3] + Carry(addend[2] + Carry(S + addend[1] - P)))>>

\* d > 0xFFFFFFFF
ExceedsUint32(d) == d[4] > 0 \/ (d[4] = 0 /\ d[3] > 0)

\* d > INT32_MAX, d < INT32_MIN
ExceedsInt32(d) == d[4] > 0 \/ (d[4] = 0 /\ (d[3] > 0 \/ d[2] >= 32768))

BelowInt32(d) == d[4] < -1 \/ (d[4] = -1 /\ ~(d[3] = 65535 /\ d[2] >= 32768))

\* The value of the relocation is outside the range of its kind.
OutOfRange(reloc, S, P) ==
    \/ reloc.type = R_X86_64_32 /\ ExceedsUint32(Exact(S, reloc.addend, 0))
    \/ /\ reloc.type = R_X86_64_32S
       /\ ExceedsInt32(Exact(S, reloc.addend, 0)) \/ BelowInt32(Exact(S, reloc.addend, 0))
    \/ /\ reloc.type = R_X86_64_PC32
       /\ ExceedsInt32(Exact(S, reloc.addend, P)) \/ BelowInt32(Exact(S, reloc.addend, P))

\* The address of the last relocation's patch site.
LastP == 4194304 + section_vaddr_offsets[last.section] + last.reloc.offset

Overflowed ==
    /\ pc = "failed"
    /\ error = "relocation-overflow"
    /\ output = NoOutput
    /\ output_sections[last.section].data = last.before

\* C9 as stated: every relocation whose target is found and whose value is
\* out of the range of its kind fails the link with relocation-overflow and
\* stores nothing; abs64 never fails on range.
RangeCheckedEverywhere ==
    LastTargetResolved =>
        /\ OutOfRange(last.reloc, last.S, LastP) => Overflowed
        /\ last.reloc.type = R_X86_64_64 => error # "relocation-overflow"

\* C9 amended: the same, for the relocations that lie in an output section
\* other than .bss and whose patch site is inside the section's bytes.
RangeChecked ==
    (LastTargetResolved /\ last.section # ".bss" /\ ~LastPatchSiteOutside) =>
        /\ OutOfRange(last.reloc, last.S, LastP) => Overflowed
        /\ last.reloc.type = R_X86_64_64 => error # "relocation-overflow"

\* C9 witness: an abs32 relocation with S + A = 0x100000000 has failed.
RangeCheckedWitness ==
    /\ LastTargetResolved
    /\ last.section # ".bss"
    /\ ~LastPatchSiteOutside
    /\ last.reloc.type = R_X86_64_32
    /\ Exact(last.S, last.reloc.addend, 0) = <<0, 0, 1, 0>>
    /\ pc = "failed"

\* The 32-bit little-endian value at off, read as a signed integer.
Read32S(buf, off) ==
    ByteAt(buf, off) + 256 * ByteAt(buf, off + 1) + 65536 * ByteAt(buf, off + 2)
        + 16777216 * (IF ByteAt(buf, off + 3) >= 128 THEN ByteAt(buf, off + 3) - 256
                      ELSE ByteAt(buf, off + 3))

\* An input section belongs to output X iff its name begins with X; a name
\* that begins with none of the four goes to .data.
StandardNames == {".text", ".rodata", ".data", ".bss"}

IsClassified(sec_name) == \E x \in StandardNames : StartsWith(sec_name, x)

OutputSectionOf(sec_name) ==
    IF IsClassified(sec_name)
    THEN CHOOSE x \in StandardNames : StartsWith(sec_name, x)
    ELSE ".data"

InputSectionNames == UNION {DOMAIN all_objects[i].sections : i \in DOMAIN all_objects}

TotalSize(sec_name) == PrecedingSize(all_objects, Len(all_objects) + 1, sec_name)

RECURSIVE TotalSizes(_)
TotalSizes(names) ==
    IF names = {} THEN 0
    ELSE TotalSize(CHOOSE n \in names : TRUE)
            + TotalSizes(names \ {CHOOSE n \in names : TRUE})

\* The start of input section sec_name in its output section: behind the
\* sections of the same output section that sort before it, the sections of
\* no category behind all others of .data.
SectionStart(sec_name) ==
    TotalSizes({n \in InputSectionNames :
                    /\ OutputSectionOf(n) = OutputSectionOf(sec_name)
                    /\ IF IsClassified(sec_name)
                       THEN IsClassified(n) /\ StrLess(n, sec_name)
                       ELSE IsClassified(n) \/ StrLess(n, sec_name)})

\* The final offset, within its output section, of offset off of section
\* sec_name of object obj_idx.
FinalOffset(obj_idx, sec_name, off) ==
    off + PrecedingSize(all_objects, obj_idx, sec_name) + SectionStart(sec_name)

\* The <<object, section, position>> of the input relocations that became
\* the last relocation.
LastOrigins ==
    {o \in {<<i, n, k>> : i \in DOMAIN all_objects, n \in InputSectionNames, k \in 1..2} :
        /\ o[2] \in DOMAIN all_objects[o[1]].sections
        /\ o[3] \in DOMAIN all_objects[o[1]].sections[o[2]].relocs
        /\ OutputSectionOf(o[2]) = last.section
        /\ [last.reloc EXCEPT !.offset = 0]
              = [all_objects[o[1]].sections[o[2]].relocs[o[3]] EXCEPT !.offset = 0]
        /\ FinalOffset(o[1], o[2], all_objects[o[1]].sections[o[2]].relocs[o[3]].offset)
              = last.reloc.offset}

\* The <<object, position>> of the symbols the last relocation can resolve
\* to: the labels of that name of the originating objects, or the
\* definitions of that name in any object.
LastTargets ==
    {t \in {<<i, k>> : i \in DOMAIN all_objects, k \in 1..8} :
        /\ t[2] \in DOMAIN all_objects[t[1]].symbols
        /\ all_objects[t[1]].symbols[t[2]].name = last.reloc.symbol
        /\ all_objects[t[1]].symbols[t[2]].type # UNDEFINED
        /\ all_objects[t[1]].symbols[t[2]].section # ""
        /\ IsDotName(last.reloc.symbol) => \E o \in LastOrigins : o[1] = t[1]}

TargetFinalOffset(t) ==
    FinalOffset(t[1], all_objects[t[1]].symbols[t[2]].section,
                all_objects[t[1]].symbols[t[2]].offset)

TargetOutputSection(t) == OutputSectionOf(all_objects[t[1]].symbols[t[2]].section)

\* The last relocation is a pcrel32 with addend -4, in an output section with
\* file bytes, its patch site inside them, and its symbol has one definition.
LastIsPcRelative ==
    /\ last.op = "reloc"
    /\ last.reloc.type = R_X86_64_PC32
    /\ last.reloc.addend = I64(-4)
    /\ last.section # ".bss"
    /\ ~LastPatchSiteOutside
    /\ LastOrigins # {}
    /\ Cardinality(LastTargets) = 1

\* C10: after a pcrel32 relocation with addend -4 whose patch site and target
\* symbol lie in the same output section, the 32-bit value at the patch site is
\* target_offset - site_offset - 4, both being final offsets in the output
\* section (input offset + start of the object in the merged buffer + start of
\* the input section in the output section).
PcRelativeIdentity ==
    LastIsPcRelative =>
        \A t \in LastTargets :
            TargetOutputSection(t) = last.section =>
                /\ pc # "failed"
                /\ Read32S(output_sections[last.section].data, last.reloc.offset)
                      = TargetFinalOffset(t) - last.reloc.offset - 4

\* C10 witness: the site at offset 5 of the first object's 40 bytes of .text,
\* the target at offset 32 of the second object's .text: 72 - 5 - 4 is stored.
PcRelativeIdentityWitness ==
    /\ LastIsPcRelative
    /\ last.section = ".text"
    /\ last.reloc.offset = 5
    /\ last.reloc.symbol = "foo"
    /\ \A t \in LastTargets : TargetFinalOffset(t) = 72
    /\ Read32S(output_sections[".text"].data, 5) = 63

\* The virtual address of output section sec_name in the returned program
\* headers; 0 when the image has no such section.
HeaderVaddr(sec_name) ==
    IF \E i \in DOMAIN output.phdrs : output.phdrs[i].name = sec_name
    THEN output.phdrs[CHOOSE i \in DOMAIN output.phdrs : output.phdrs[i].name = sec_name].vaddr
    ELSE 0

HasHeader(sec_name) == \E i \in DOMAIN output.phdrs : output.phdrs[i].name = sec_name

\* The entry symbol has a definition in the global table.
EntryIsDefined ==
    /\ options.entryPoint \in DOMAIN global_symbols
    /\ global_symbols[options.entryPoint].type # UNDEFINED

\* C11: the entry of the returned image is the address of the entry symbol,
\* base + vaddr offset of its output section + its offset in that section,
\* when the global table has a definition of the entry name; when the name
\* is absent from the table or undefined in it, the entry is the address of
\* the first byte of .text, and 0x400000 when the image has no .text.
EntryAddress ==
    pc = "done" =>
        IF EntryIsDefined
        THEN /\ HasHeader(global_symbols[options.entryPoint].section)
             /\ output.entry = HeaderVaddr(global_symbols[options.entryPoint].section)
                                  + global_symbols[options.entryPoint].offset
        ELSE output.entry = IF HasHeader(".text") THEN HeaderVaddr(".text") ELSE 4194304

\* C11 witness: _start at offset 8 of .data, the second section of the image:
\* the entry is 0x400000 + 0x1000 + 8.
EntryAddressWitness ==
    /\ pc = "done"
    /\ EntryIsDefined
    /\ HasHeader(".text")
    /\ global_symbols[options.entryPoint].section = ".data"
    /\ output.entry = 4194304 + 4096 + 8

\* The objects that have a section sec_name.
Holders(sec_name) == {i \in DOMAIN all_objects : sec_name \in DOMAIN all_objects[i].sections}

\* The relocations of section sec_name of the objects from position j on,
\* each offset increased by the size of that section in the objects before
\* its own.
RECURSIVE ShiftedRelocsFrom(_, _)
ShiftedRelocsFrom(j, sec_name) ==
    IF j > Len(all_objects) THEN <<>>
    ELSE (IF j \in Holders(sec_name)
          THEN [k \in DOMAIN all_objects[j].sections[sec_name].relocs |->
                   [all_objects[j].sections[sec_name].relocs[k] EXCEPT
                       !.offset = @ + PrecedingSize(all_objects, j, sec_name)]]
          ELSE <<>>)
         \o ShiftedRelocsFrom(j + 1, sec_name)

\* buf is the concatenation of the bytes of sec_name of the objects.
IsConcatenation(buf, sec_name) ==
    /\ buf.len = PrecedingSize(all_objects, Len(all_objects) + 1, sec_name)
    /\ DOMAIN buf.nz \subseteq 0..(buf.len - 1)
    /\ \A i \in Holders(sec_name) :
          \A k \in 0..(SizeIn(all_objects[i], sec_name) - 1) :
              ByteAt(buf, PrecedingSize(all_objects, i, sec_name) + k)
                  = ByteAt(all_objects[i].sections[sec_name].data, k)

\* Every in-bounds relocation of sec_name points in buf at the bytes it
\* pointed at in its input section.
SitesKeepBytes(buf, sec_name) ==
    \A i \in Holders(sec_name) :
        \A r \in Range(all_objects[i].sections[sec_name].relocs) :
            r.offset + KindWidth(r.type) <= SizeIn(all_objects[i], sec_name) =>
                \A k \in 0..(KindWidth(r.type) - 1) :
                    ByteAt(buf, r.offset + PrecedingSize(all_objects, i, sec_name) + k)
                        = ByteAt(all_objects[i].sections[sec_name].data, r.offset + k)

\* C12: after stage one the merged sections are those of the names present
\* in the participating objects; each merged buffer is the concatenation of
\* the objects' bytes in participating order, each merged relocation list is
\* the objects' relocations in that order with the offsets increased by the
\* size of the section in the preceding objects, and an in-bounds relocation
\* points at the bytes it pointed at in its input section.
StageOneMerge ==
    last.op = "merge" =>
        /\ DOMAIN merged_sections
              = UNION {DOMAIN all_objects[i].sections : i \in DOMAIN all_objects}
        /\ \A sec_name \in DOMAIN merged_sections :
              /\ IsConcatenation(merged_sections[sec_name].data, sec_name)
              /\ merged_sections[sec_name].relocs = ShiftedRelocsFrom(1, sec_name)
              /\ SitesKeepBytes(merged_sections[sec_name].data, sec_name)

\* C12 witness: three objects with .text, the last of them with two
\* relocations, at offsets 8 and 24 of its 40 bytes, behind 4016 + 40 bytes.
StageOneMergeWitness ==
    /\ last.op = "merge"
    /\ Cardinality(Holders(".text")) = 3
    /\ merged_sections[".text"].data.len = 4096
    /\ Len(merged_sections[".text"].relocs) = 3
    /\ merged_sections[".text"].relocs[2].offset = 4056 + 8
    /\ merged_sections[".text"].relocs[3].offset = 4056 + 24

\* The labels of name `name` that object obj_idx defines.
OwnLabels(obj_idx, name) ==
    {sym \in Range(all_objects[obj_idx].symbols) : sym.name = name /\ sym.section # ""}

\* Some other participating object defines a label of that name.
DefinedElsewhere(obj_idx, name) ==
    \E j \in DOMAIN all_objects \ {obj_idx} : OwnLabels(j, name) # {}

\* The address of label sym of object obj_idx in the image.
OwnLabelAddress(obj_idx, sym) ==
    4194304 + section_vaddr_offsets[OutputSectionOf(sym.section)]
        + FinalOffset(obj_idx, sym.section, sym.offset)

LastIsLabelReference ==
    /\ last.op = "reloc"
    /\ IsDotName(last.reloc.symbol)
    /\ LastOrigins # {}

\* C14: a relocation against a dot-prefixed label is resolved in the label
\* table of the object it comes from.  When that object defines the label,
\* the lookup does not fail and S is the address of that object's own label,
\* whatever labels of the same name other objects define (and an abs32
\* relocation with addend 0 that is applied stores that address); when it
\* does not, the link fails with undefined-local-symbol, also when another
\* object defines a label of that name.
LabelsResolveInOrigin ==
    LastIsLabelReference =>
        \A o \in LastOrigins :
            IF OwnLabels(o[1], last.reloc.symbol) = {}
            THEN pc = "failed" /\ error = "undefined-local-symbol" /\ output = NoOutput
            ELSE \A sym \in OwnLabels(o[1], last.reloc.symbol) :
                    /\ ~(pc = "failed"
                         /\ error \in {"undefined-local-symbol", "no-original-section"})
                    /\ last.S = OwnLabelAddress(o[1], sym)
                    /\ (/\ last.outcome = "patched"
                        /\ last.reloc.type = R_X86_64_32
                        /\ last.reloc.addend = I64(0))
                          => Read32S(output_sections[last.section].data, last.reloc.offset)
                                = OwnLabelAddress(o[1], sym)

\* C14 witness: the second object's relocation against .L0 has been applied
\* with the address of its own .L0, the first object having a .L0 in the
\* same input section at another address.
LabelsResolveInOriginWitness ==
    /\ LastIsLabelReference
    /\ last.outcome = "patched"
    /\ \A o \in LastOrigins :
          /\ o[1] = 2
          /\ OwnLabels(2, last.reloc.symbol) # {}
          /\ \E sym \in OwnLabels(1, last.reloc.symbol) :
                /\ sym.section \in {own.section : own \in OwnLabels(2, last.reloc.symbol)}
                /\ OwnLabelAddress(1, sym) # last.S

\* C14 witness of the failure: the originating object has no label of the
\* name, another object has one, and the link has failed.
UndefinedLabelWitness ==
    /\ LastIsLabelReference
    /\ \A o \in LastOrigins :
          /\ OwnLabels(o[1], last.reloc.symbol) = {}
          /\ DefinedElsewhere(o[1], last.reloc.symbol)
    /\ pc = "failed"
    /\ error = "undefined-local-symbol"

SuppliedArchives == SelectSeq(objects, IsArchive)

\* The member at a slot <<archive name, member position>> of the inputs.
MemberAt(slot) ==
    (CHOOSE a \in Range(SuppliedArchives) : a.name = slot[1]).members[slot[2]]

\* C15: the archive loop ends after at most one pass more than there are
\* archives.  A pass that has pulled a member ends with fewer archives in
\* reserve than it began with and is followed by another pass; a pass that
\* has pulled nothing ends the loop.  The participating list is the ordinary
\* objects followed by the members pulled so far, in the order they were
\* pulled, and no member of an archive is pulled twice.
ArchiveLoopTerminates ==
    pc # "start" =>
        /\ pass.n <= Len(SuppliedArchives) + 1
        /\ pc = "archives" => pass.n <= Len(SuppliedArchives)
        /\ (last.op = "end_pass" /\ last.pulled) =>
              pc = "archives" /\ pass.reserve < pass.before
        /\ (last.op = "end_pass" /\ ~last.pulled) => pc # "archives"
        /\ all_objects = SelectSeq(objects, IsOrdinary)
                            \o [i \in DOMAIN pass.slots |-> MemberAt(pass.slots[i])]
        /\ \A i, j \in DOMAIN pass.slots : i < j => pass.slots[i] # pass.slots[j]

\* C15 witness: members with a cycle of references (a needs b, b needs c,
\* c needs a) have all been pulled, the last two in a second pass, and the
\* loop has ended after a third pass that pulled nothing.
ArchiveLoopTerminatesWitness ==
    /\ pc = "merge"
    /\ pass.n = 3
    /\ Len(pass.slots) = 3
    /\ undefined_symbols = {}
    /\ archives = <<>>

\* The value of a string of hexadecimal digits.
HexDigitValue(c) == CHOOSE d \in 0..15 : SubSeq("0123456789abcdef", d + 1, d + 1) = c

RECURSIVE HexValue(_)
HexValue(str) ==
    IF Len(str) = 0 THEN 0
    ELSE 16 * HexValue(SubSeq(str, 1, Len(str) - 1))
            + HexDigitValue(SubSeq(str, Len(str), Len(str)))

BaseLetter(sec) ==
    CASE StartsWith(sec, ".text") -> "T"
      [] StartsWith(sec, ".data") -> "D"
      [] StartsWith(sec, ".bss") -> "B"
      [] StartsWith(sec, ".rodata") -> "R"
      [] OTHER -> "?"

Lowercase(c) ==
    IF c \in {"T", "D", "B", "R"}
    THEN [x \in {"T", "D", "B", "R"} |->
            CASE x = "T" -> "t" [] x = "D" -> "d" [] x = "B" -> "b" [] x = "R" -> "r"][c]
    ELSE c

Classification(sym) ==
    CASE sym.type = UNDEFINED -> "U"
      [] sym.type = LOCAL_ -> Lowercase(BaseLetter(sym.section))
      [] sym.type = GLOBAL -> BaseLetter(sym.section)
      [] sym.type = WEAK ->
            IF BaseLetter(sym.section) = "T" THEN "W"
            ELSE IF BaseLetter(sym.section) \in {"D", "B", "R"} THEN "V"
            ELSE BaseLetter(sym.section)

\* The line is <16 hexadecimal digits> <classification char> <name> of sym.
IsLineOf(line, sym) ==
    /\ Len(line) = 19 + Len(sym.name)
    /\ HexValue(SubSeq(line, 1, 16)) = (IF sym.type = UNDEFINED THEN 0 ELSE sym.offset)
    /\ SubSeq(line, 17, 17) = " "
    /\ SubSeq(line, 18, 18) = Classification(sym)
    /\ SubSeq(line, 19, 19) = " "
    /\ SubSeq(line, 20, Len(line)) = sym.name

Occurrences(seq, x) == Cardinality({i \in DOMAIN seq : seq[i] = x})

\* C13: every line FLE_nm has written is that of the symbol at its position
\* in the sorted copy: U for an undefined symbol, else the base letter of the
\* section prefix (T, D, B, R, ?), in lower case for local binding, as it is
\* for global binding, W or V for weak binding in .text* or in .data*, .bss*,
\* .rodata*; the offset field is the stored offset, zero for an undefined
\* symbol.  When FLE_nm returns, every symbol of the object has its line.
NmClassification ==
    pc \in {"nm-print", "nm-done"} =>
        /\ \A i \in DOMAIN nm_lines : IsLineOf(nm_lines[i], nm_symbols[i])
        /\ \A sym \in Range(nm_obj.symbols) :
              Occurrences(nm_symbols, sym) = Occurrences(nm_obj.symbols, sym)
        /\ pc = "nm-done" => Len(nm_lines) = Len(nm_obj.symbols)

\* C13 witness: a weak symbol of .data.rel at offset 0xabcd and a local
\* symbol of .rodata at offset 8 have been listed.
NmClassificationWitness ==
    /\ pc = "nm-done"
    /\ nm_lines = <<"000000000000abcd V .L0", "0000000000000008 r f">>

====
